---- MODULE Spec2Model ----
(***************************************************************************)
(* Model of omniserve/core/scheduler.py: the three-queue request scheduler *)
(* (waiting, running, swapped), its tick (_schedule), preemption, abort    *)
(* and reaping, together with the engine-side events the scheduler reacts  *)
(* to (a sequence finishing, a fork, a token being appended).              *)
(*                                                                         *)
(* The block-space manager, the policy and the sequence classes live       *)
(* outside scheduler.py.  The block manager's predicates are inputs of a   *)
(* tick (drawn with \E); its per-sequence block-table lifecycle, the FCFS  *)
(* policy and SequenceGroup's accessors are modelled from the              *)
(* specification's description of them.                                    *)
(***************************************************************************)
EXTENDS Integers, Sequences, FiniteSets, TLC

\* ------------------------------------------------------------------ bounds
NumGroups == 3            \* sequence groups ever added; ids 1..NumGroups in arrival order
MaxSeqsPerGroup == 2      \* sequences a group can hold (prompt sequence + forked children)
KeptPlanGroups == 2       \* groups added in the behaviours in which the engine keeps a plan
RoomyGroups == 2          \* groups added in the behaviours in which one group alone always fits

\* scheduler_config
max_num_seqs == 4
max_num_batched_tokens == 4
max_model_len == 3

Groups == 1..NumGroups
Slots == 1..MaxSeqsPerGroup

Min(a, b) == IF a < b THEN a ELSE b

prompt_limit == Min(max_model_len, max_num_batched_tokens)

\* Sequence lengths that are told apart: a short sequence, one of exactly
\* prompt_limit tokens and one of a token more.
SeqLens == {1, prompt_limit, prompt_limit + 1}

\* The requests that arrive: [len, best_of].  A multi-sequence request is short.
Requests == [len : SeqLens, best_of : {1}] \cup [len : {1}, best_of : 2..MaxSeqsPerGroup]

\* SequenceStatus; "NONE" marks a slot that holds no sequence.
FinishedStatuses == {"FINISHED_STOPPED", "FINISHED_ABORTED", "FINISHED_IGNORED"}
Statuses == {"NONE", "WAITING", "RUNNING", "SWAPPED"} \cup FinishedStatuses

AllocStatus == {"OK", "LATER", "NEVER"}

VARIABLES
    waiting,          \* self.waiting: sequence of group ids
    running,          \* self.running
    swapped,          \* self.swapped
    num_added,        \* groups 1..num_added have been passed to add_seq_group
    seq_status,       \* [group -> [slot -> status]]
    seq_len,          \* [group -> length of the group's prompt sequence]
    max_running_seqs, \* [group -> get_max_num_running_seqs()]
    block_table,      \* block manager: [group -> [slot -> "none" | "gpu" | "cpu"]]
    plan,             \* what the call just made returned: the SchedulerOutputs of a
                      \* tick, NoPlan for every other call
    plan_returned,    \* the call just made was a tick and it returned plan
    error,            \* exception raised by the last tick, "none" if it returned:
                      \* "RuntimeError" (no swap space) or a failed assertion,
                      \* "AssertWaiting", "AssertRecompute", "AssertOutputs"
    admitted_log,     \* groups admitted so far, in order; kept while no tick has
                      \* preempted, <<>> from the first preemption on
    preempted_ever,   \* some tick has called _preempt
    engine_keeps_plan,\* the caller keeps the last decode plan it was handed
    kept_plan,        \* that plan's scheduled_seq_groups as the caller sees it now,
                      \* and whether it is the deque self.running is bound to
    environment       \* what the scheduler is run in: room_for_one, the block manager
                      \* has room for any one group when no other group holds blocks;
                      \* wide_requests, requests may ask for more sequences than
                      \* max_num_seqs

vars == <<waiting, running, swapped, num_added, seq_status, seq_len,
          max_running_seqs, block_table, plan, plan_returned, error,
          admitted_log, preempted_ever, engine_keeps_plan, kept_plan, environment>>

\* ------------------------------------------------------------- sequences
SeqSet(q) == {q[i] : i \in 1..Len(q)}

Last(q) == q[Len(q)]

Front(q) == SubSeq(q, 1, Len(q) - 1)

Remove(q, g) == SelectSeq(q, LAMBDA x : x # g)

RECURSIVE Sum(_)
Sum(q) == IF q = <<>> THEN 0 ELSE Head(q) + Sum(Tail(q))

RECURSIVE Max(_)
Max(q) == IF Len(q) = 1 THEN Head(q)
          ELSE LET m == Max(Tail(q)) IN IF Head(q) > m THEN Head(q) ELSE m

\* Insert g into the arrival-sorted sequence q (group ids are arrival order).
RECURSIVE InsertByArrival(_, _)
InsertByArrival(q, g) ==
    IF q = <<>> THEN <<g>>
    ELSE IF g < Head(q) THEN <<g>> \o q
    ELSE <<Head(q)>> \o InsertByArrival(Tail(q), g)

\* FCFS policy: priority = now - arrival_time, highest first: earliest arrival first.
RECURSIVE sort_by_priority(_)
sort_by_priority(q) ==
    IF q = <<>> THEN <<>>
    ELSE InsertByArrival(sort_by_priority(Front(q)), Last(q))

\* ------------------------------------------------- SequenceGroup accessors
is_finished(st) == st \in FinishedStatuses

get_seqs(status, g, want) == {s \in Slots : status[g][s] = want}

all_seqs(status, g) == {s \in Slots : status[g][s] # "NONE"}

unfinished_seqs(status, g) == {s \in all_seqs(status, g) : ~is_finished(status[g][s])}

group_is_finished(status, g) == unfinished_seqs(status, g) = {}

get_max_num_running_seqs(g) == max_running_seqs[g]

RECURSIVE SumMaxRunning(_)
SumMaxRunning(q) ==
    IF q = <<>> THEN 0 ELSE get_max_num_running_seqs(Head(q)) + SumMaxRunning(Tail(q))

\* Mutant: one token is counted for each group.
NumRunningSeqs_Groups(status, q) == Len(q)

RECURSIVE NumRunningSeqs(_, _)
NumRunningSeqs(status, q) ==
    IF q = <<>> THEN 0
    ELSE Cardinality(get_seqs(status, Head(q), "RUNNING")) + NumRunningSeqs(status, Tail(q))

\* ------------------------------------------------------------------ plan
SchedulerOutputs(scheduled, prompt_run, num_batched_tokens, r_in, s_in, r_out, s_out, r_copy, s_copy, ignored) ==
    [scheduled_seq_groups |-> scheduled,
     prompt_run |-> prompt_run,
     num_batched_tokens |-> num_batched_tokens,
     retrieval_blocks_to_swap_in |-> r_in,
     streaming_blocks_to_swap_in |-> s_in,
     retrieval_blocks_to_swap_out |-> r_out,
     streaming_blocks_to_swap_out |-> s_out,
     retrieval_blocks_to_copy |-> r_copy,
     streaming_blocks_to_copy |-> s_copy,
     ignored_seq_groups |-> ignored]

NoPlan == SchedulerOutputs(<<>>, FALSE, 0, {}, {}, {}, {}, {}, {}, <<>>)

\* The constructor's two assertions.
OutputsAssertionOk(r_in, s_in, r_out, s_out) ==
    /\ ~(r_in # {} /\ r_out # {})
    /\ ~(s_in # {} /\ s_out # {})

is_empty ==
    /\ plan.scheduled_seq_groups = <<>>
    /\ plan.retrieval_blocks_to_swap_in = {}
    /\ plan.streaming_blocks_to_swap_in = {}
    /\ plan.retrieval_blocks_to_swap_out = {}
    /\ plan.streaming_blocks_to_swap_out = {}
    /\ plan.retrieval_blocks_to_copy = {}
    /\ plan.streaming_blocks_to_copy = {}

has_unfinished_seqs == waiting # <<>> \/ running # <<>> \/ swapped # <<>>

get_num_unfinished_seq_groups == Len(waiting) + Len(running) + Len(swapped)

\* Nothing is assumed of the block manager, and no request asks for more than
\* MaxSeqsPerGroup sequences.
AnyEnvironment == [room_for_one |-> FALSE, wide_requests |-> FALSE]

\* No decode plan is kept.
NoKeptPlan == [scheduled_seq_groups |-> <<>>, is_self_running |-> FALSE]

\* ------------------------------------------------------------------ init
Init ==
    /\ waiting = <<>>
    /\ running = <<>>
    /\ swapped = <<>>
    /\ num_added = 0
    /\ seq_status = [g \in Groups |-> [s \in Slots |-> "NONE"]]
    /\ seq_len = [g \in Groups |-> 0]
    /\ max_running_seqs = [g \in Groups |-> 1]
    /\ block_table = [g \in Groups |-> [s \in Slots |-> "none"]]
    /\ plan = NoPlan
    /\ plan_returned = FALSE
    /\ error = "none"
    /\ admitted_log = <<>>
    /\ preempted_ever = FALSE
    /\ engine_keeps_plan = FALSE
    /\ kept_plan = NoKeptPlan
    /\ environment = AnyEnvironment

\* ------------------------------------------------------------------ tick
\* The scheduler state a tick works on, with the locals of _schedule.
TickStart ==
    [waiting |-> waiting, running |-> running, swapped |-> swapped,
     status |-> seq_status, table |-> block_table,
     new_running |-> <<>>,       \* the local deque `running` of the decode phase
     num_curr_seqs |-> 0, seq_lens |-> <<>>,
     scheduled |-> <<>>, ignored |-> <<>>, preempted |-> <<>>,
     appended |-> <<>>,          \* the calls of _append_slot: <<group, its RUNNING sequences>>
     r_in |-> {}, s_in |-> {}, r_out |-> {}, s_out |-> {}, r_copy |-> {}, s_copy |-> {},
     error |-> "none"]

SetStatus(status, g, from, to) ==
    [status EXCEPT ![g] = [s \in Slots |-> IF status[g][s] \in from THEN to ELSE status[g][s]]]

\* block_manager.free(seq) for the sequences `seqs` of g
FreeTables(table, g, seqs) ==
    [table EXCEPT ![g] = [s \in Slots |-> IF s \in seqs THEN "none" ELSE table[g][s]]]

MoveTables(table, g, seqs, to) ==
    [table EXCEPT ![g] = [s \in Slots |-> IF s \in seqs THEN to ELSE table[g][s]]]

\* Mutant: blocks are allocated but the statuses are left WAITING.
allocate_NoStatus(st, g) ==
    [st EXCEPT !.table = MoveTables(@, g, get_seqs(st.status, g, "WAITING"), "gpu")]

\* _allocate: block_manager.allocate, then WAITING -> RUNNING
allocate(st, g) ==
    [st EXCEPT !.table = MoveTables(@, g, get_seqs(st.status, g, "WAITING"), "gpu"),
               !.status = SetStatus(@, g, {"WAITING"}, "RUNNING")]

\* Mutant: a prompt of exactly prompt_limit tokens is rejected too.
PromptTooLong_AtLimit(num_prompt_tokens) == num_prompt_tokens >= prompt_limit

\* The three admission tests of the prompt loop.
PromptTooLong(num_prompt_tokens) == num_prompt_tokens > prompt_limit

\* Mutant: the token budget is never exceeded.
ExceedsBatchedTokens_Never(new_seq_lens) == FALSE

ExceedsBatchedTokens(new_seq_lens) == Sum(new_seq_lens) > max_num_batched_tokens

\* Mutant: the new group's sequences are not counted.
ExceedsMaxNumSeqs_CurrOnly(num_curr_seqs, num_new_seqs) == num_curr_seqs > max_num_seqs

ExceedsMaxNumSeqs(num_curr_seqs, num_new_seqs) ==
    num_curr_seqs + num_new_seqs > max_num_seqs

\* A rejected prompt: FINISHED_IGNORED, listed as ignored, popped from waiting.
Ignore(st, g) ==
    [st EXCEPT !.status = SetStatus(@, g, {"WAITING"}, "FINISHED_IGNORED"),
               !.ignored = Append(@, g),
               !.waiting = Tail(@)]

\* An admitted prompt.
Admit(st, g, new_seq_lens) ==
    LET a == allocate([st EXCEPT !.waiting = Tail(@)], g)
    IN  [a EXCEPT !.seq_lens = new_seq_lens,
                  !.running = Append(@, g),
                  !.num_curr_seqs = @ + get_max_num_running_seqs(g),
                  !.scheduled = Append(@, g)]

\* Mutant: the deferred group is moved behind the groups that wait after it.
Defer_ToBack(st) == [st EXCEPT !.waiting = Append(Tail(@), Head(@))]

\* `break`: the loop ends and the group stays at the head of waiting.
Defer(st) == st

\* The `while self.waiting` loop; can_allocate[g] is the block manager's answer for g.
RECURSIVE AdmitLoop(_, _)
AdmitLoop(st, can_allocate) ==
    IF st.waiting = <<>> THEN st
    ELSE
      LET g == Head(st.waiting)
          waiting_seqs == get_seqs(st.status, g, "WAITING")
          num_prompt_tokens == seq_len[g]
          new_seq_lens == Append(st.seq_lens, num_prompt_tokens)
      IN  IF Cardinality(waiting_seqs) # 1 THEN [st EXCEPT !.error = "AssertWaiting"]
          ELSE IF PromptTooLong(num_prompt_tokens) THEN AdmitLoop(Ignore(st, g), can_allocate)
          ELSE IF can_allocate[g] = "LATER" THEN Defer(st)
          ELSE IF can_allocate[g] = "NEVER" THEN AdmitLoop(Ignore(st, g), can_allocate)
          ELSE IF ExceedsBatchedTokens(new_seq_lens) THEN Defer(st)
          ELSE IF ExceedsMaxNumSeqs(st.num_curr_seqs, get_max_num_running_seqs(g))
               THEN Defer(st)
          ELSE AdmitLoop(Admit(st, g, new_seq_lens), can_allocate)

\* Mutant: prompts are admitted also while groups are swapped out.
EntersPromptPhase_Always(q) == TRUE

\* `if not self.swapped`
EntersPromptPhase(q) == q = <<>>

\* Mode A as a whole: entered only when swapped is empty.
PromptPhase(st, can_allocate) ==
    IF ~EntersPromptPhase(st.swapped) THEN st
    ELSE AdmitLoop([st EXCEPT !.num_curr_seqs = SumMaxRunning(st.running)], can_allocate)

PaddedTokens(seq_lens) == IF seq_lens # <<>> THEN Len(seq_lens) * Max(seq_lens) ELSE 0

\* ------------------------------------------------------------ preemption
\* Mutant: the preempted group is put at the back of waiting.
preempt_by_recompute_ToBack(st, g) ==
    LET seqs == get_seqs(st.status, g, "RUNNING")
    IN  IF Cardinality(seqs) # 1 THEN [st EXCEPT !.error = "AssertRecompute"]
        ELSE [st EXCEPT !.status = SetStatus(@, g, {"RUNNING"}, "WAITING"),
                        !.table = FreeTables(@, g, seqs),
                        !.waiting = Append(@, g)]

preempt_by_recompute(st, g) ==
    LET seqs == get_seqs(st.status, g, "RUNNING")
    IN  IF Cardinality(seqs) # 1 THEN [st EXCEPT !.error = "AssertRecompute"]
        ELSE [st EXCEPT !.status = SetStatus(@, g, {"RUNNING"}, "WAITING"),
                        !.table = FreeTables(@, g, seqs),
                        !.waiting = <<g>> \o @]

\* Mutant: the group is swapped out without asking can_swap_out.
swap_out_NoCheck(st, g, can_swap_out, bm) ==
    [st EXCEPT !.table = MoveTables(@, g, get_seqs(st.status, g, "RUNNING"), "cpu"),
               !.r_out = @ \cup {g},
               !.s_out = IF bm.streaming THEN @ \cup {g} ELSE @,
               !.status = SetStatus(@, g, {"RUNNING"}, "SWAPPED")]

\* _swap_out: can_swap_out is the set of groups for which the block manager answers
\* true; bm.streaming tells whether it has streaming blocks to move.
swap_out(st, g, can_swap_out, bm) ==
    IF g \notin can_swap_out THEN [st EXCEPT !.error = "RuntimeError"]
    ELSE [st EXCEPT !.table = MoveTables(@, g, get_seqs(st.status, g, "RUNNING"), "cpu"),
                    !.r_out = @ \cup {g},
                    !.s_out = IF bm.streaming THEN @ \cup {g} ELSE @,
                    !.status = SetStatus(@, g, {"RUNNING"}, "SWAPPED")]

preempt_by_swap(st, g, can_swap_out, bm) ==
    LET o == swap_out(st, g, can_swap_out, bm)
    IN  IF o.error # "none" THEN o ELSE [o EXCEPT !.swapped = Append(@, g)]

\* Mutant: every group is preempted by recomputation.
PreemptionMode_Recompute(g) == "RECOMPUTE"

PreemptionMode(g) == IF get_max_num_running_seqs(g) = 1 THEN "RECOMPUTE" ELSE "SWAP"

preempt(st, g, can_swap_out, bm) ==
    IF PreemptionMode(g) = "RECOMPUTE" THEN preempt_by_recompute(st, g)
    ELSE preempt_by_swap(st, g, can_swap_out, bm)

\* Mutant: the blocks are swapped in but the statuses are left SWAPPED.
swap_in_NoStatus(st, g, bm) ==
    [st EXCEPT !.table = MoveTables(@, g, get_seqs(st.status, g, "SWAPPED"), "gpu"),
               !.r_in = @ \cup {g},
               !.s_in = IF bm.streaming THEN @ \cup {g} ELSE @]

swap_in(st, g, bm) ==
    [st EXCEPT !.table = MoveTables(@, g, get_seqs(st.status, g, "SWAPPED"), "gpu"),
               !.r_in = @ \cup {g},
               !.s_in = IF bm.streaming THEN @ \cup {g} ELSE @,
               !.status = SetStatus(@, g, {"SWAPPED"}, "RUNNING")]

\* _append_slot: a group whose sequences share blocks (it has forked) may get a
\* copy-on-write instruction; bm.cow is the block manager's answer.
append_slot(st, g, bm) ==
    LET copies == bm.cow /\ Cardinality(get_seqs(st.status, g, "RUNNING")) > 1
    IN  [st EXCEPT !.r_copy = IF copies THEN @ \cup {g} ELSE @,
                   !.s_copy = IF copies /\ bm.streaming THEN @ \cup {g} ELSE @,
                   !.appended = Append(@, <<g, get_seqs(st.status, g, "RUNNING")>>)]

\* Mutant: the victim is the group at the front of self.running.
Victim_Front(q) == Head(q)

\* The victim of a preemption: the lowest-priority group, the tail of self.running.
Victim(q) == Last(q)

\* Mutant: the victim is read but not popped.
WithoutVictim_NotPopped(q) == q

WithoutVictim(q) == Front(q)

\* The inner `while not can_append_slot(seq_group)` loop for the group g popped from the
\* front; can_append_slot(g) answers false `fails` more times.
RECURSIVE MakeRoom(_, _, _, _, _)
MakeRoom(st, g, fails, can_swap_out, bm) ==
    IF fails = 0
    THEN [append_slot(st, g, bm) EXCEPT !.new_running = Append(@, g)]
    ELSE IF st.running # <<>>
    THEN LET v == Victim(st.running)
             p == preempt([st EXCEPT !.running = WithoutVictim(@)], v, can_swap_out, bm)
         IN  IF p.error # "none" THEN p
             ELSE MakeRoom([p EXCEPT !.preempted = Append(@, v)], g, fails - 1,
                           can_swap_out, bm)
    ELSE LET p == preempt(st, g, can_swap_out, bm)
         IN  IF p.error # "none" THEN p ELSE [p EXCEPT !.preempted = Append(@, g)]

\* The `while self.running` loop.
RECURSIVE ReserveSlots(_, _, _, _)
ReserveSlots(st, append_fails, can_swap_out, bm) ==
    IF st.error # "none" \/ st.running = <<>> THEN st
    ELSE LET g == Head(st.running)
         IN  ReserveSlots(MakeRoom([st EXCEPT !.running = Tail(@)], g, append_fails[g],
                                   can_swap_out, bm),
                          append_fails, can_swap_out, bm)

\* Mutant: the loop looks at the group at the back of swapped.
NextToSwapIn_Last(q) == Last(q)

\* `seq_group = self.swapped[0]`
NextToSwapIn(q) == Head(q)

\* The `while self.swapped` loop; can_swap_in is the set of groups for which the block
\* manager answers true.
RECURSIVE SwapInLoop(_, _, _)
SwapInLoop(st, can_swap_in, bm) ==
    IF st.swapped = <<>> THEN st
    ELSE LET g == NextToSwapIn(st.swapped)
             num_new_seqs == get_max_num_running_seqs(g)
         IN  IF g \notin can_swap_in THEN st
             ELSE IF ExceedsMaxNumSeqs(st.num_curr_seqs, num_new_seqs) THEN st
             ELSE LET i == swap_in([st EXCEPT !.swapped = Tail(@)], g, bm)
                      a == append_slot(i, g, bm)
                  IN  SwapInLoop([a EXCEPT !.num_curr_seqs = @ + num_new_seqs,
                                           !.running = Append(@, g)],
                                 can_swap_in, bm)

\* Mutant: the swap-in phase is skipped only after a swap-out.
SwapInAllowed_IfNoSwapOut(st) == st.r_out = {}

\* Mutant: the swap-in phase runs also after a preemption.
SwapInAllowed_Always(st) == TRUE

\* `if not preempted`
SwapInAllowed(st) == st.preempted = <<>>

\* Mutant: self.running is not rebound to the groups that were served.
ReservePhase_NoRebind(st, append_fails, can_swap_out, bm) ==
    LET sorted == [st EXCEPT !.running = sort_by_priority(@)]
        r == ReserveSlots(sorted, append_fails, can_swap_out, bm)
    IN  IF r.error # "none" THEN r
        ELSE [r EXCEPT !.swapped = sort_by_priority(@)]

\* Mode B up to the swap-in phase: sort running, reserve slots (preempting), rebind
\* self.running, sort swapped.
ReservePhase(st, append_fails, can_swap_out, bm) ==
    LET sorted == [st EXCEPT !.running = sort_by_priority(@)]
        r == ReserveSlots(sorted, append_fails, can_swap_out, bm)
    IN  IF r.error # "none" THEN r
        ELSE [r EXCEPT !.running = r.new_running,
                       !.swapped = sort_by_priority(@)]

\* The groups can_swap_in can be asked about in state s of a tick.
SwapInCandidates(s) == IF SwapInAllowed(s) THEN SeqSet(s.swapped) ELSE {}

\* The swap-in phase of mode B.
SwapInPhase(s, can_swap_in, bm) ==
    IF SwapInAllowed(s)
    THEN SwapInLoop([s EXCEPT !.num_curr_seqs = SumMaxRunning(s.running)], can_swap_in, bm)
    ELSE s

MultiSeqGroups(q) == {g \in SeqSet(q) : PreemptionMode(g) = "SWAP"}

\* How often can_append_slot(g) answers false before it answers true, for each running
\* group: at most once per group behind g in priority order, and once more for g itself.
\* The answer is about the RUNNING sequences of g: it is true for a group that has none.
AppendAnswers ==
    LET q == sort_by_priority(running)
    IN  {f \in [SeqSet(running) -> 0..Len(running)] :
           \A i \in 1..Len(q) :
              /\ f[q[i]] <= Len(q) - i + 1
              /\ get_seqs(seq_status, q[i], "RUNNING") = {} => f[q[i]] = 0}

\* What the block manager's mappings hold in a decode tick: whether the streaming class
\* has blocks to move (asked only where a group can be swapped) and whether appending
\* to a forked group copies a shared block (asked only where a group has forked).
BlockManagerAnswers ==
    [streaming : IF MultiSeqGroups(running) \cup SeqSet(swapped) = {} THEN {FALSE}
                 ELSE BOOLEAN,
     cow : IF \E g \in SeqSet(running) \cup SeqSet(swapped) :
                 Cardinality(unfinished_seqs(seq_status, g)) > 1
           THEN BOOLEAN ELSE {FALSE}]

\* The block manager's can_swap_out answers, asked only in a tick where some append
\* finds no free slot (no group is preempted otherwise).
SwapOutAnswers(append_fails) ==
    IF \A g \in SeqSet(running) : append_fails[g] = 0 THEN {{}}
    ELSE SUBSET MultiSeqGroups(running)

\* ---------------------------------------------------------------- actions
\* A call other than a tick, and a tick that raises, return no plan.
ReturnsNothing == plan' = NoPlan /\ plan_returned' = FALSE

Returns(outputs) == plan' = outputs /\ plan_returned' = TRUE

PreemptCalled(r) == r.preempted # <<>> \/ r.error \in {"RuntimeError", "AssertRecompute"}

\* What a call does to the decode plan the caller keeps.  A decode plan is built with
\* scheduled_seq_groups=self.running, the deque itself: the caller's list is changed by
\* every in-place change of self.running until self.running is bound to a new deque.
KeptPlanUntouched == UNCHANGED <<engine_keeps_plan, kept_plan, environment>>

\* self.running was changed in place to q.
KeptPlanSees(q) ==
    /\ kept_plan' = IF kept_plan.is_self_running
                    THEN [kept_plan EXCEPT !.scheduled_seq_groups = q] ELSE kept_plan
    /\ UNCHANGED <<engine_keeps_plan, environment>>

\* self.running was bound to a new deque.
KeptPlanUnbound ==
    /\ kept_plan' = [kept_plan EXCEPT !.is_self_running = FALSE]
    /\ UNCHANGED <<engine_keeps_plan, environment>>

\* A decode plan is returned with scheduled_seq_groups=self.running, now q.
KeptPlanTaken(q) ==
    /\ kept_plan' = IF engine_keeps_plan
                    THEN [scheduled_seq_groups |-> q, is_self_running |-> TRUE]
                    ELSE [kept_plan EXCEPT !.is_self_running = FALSE]
    /\ UNCHANGED <<engine_keeps_plan, environment>>

\* The scheduler's own state after a tick that ended in state r.
CommitQueues(r) ==
    /\ waiting' = r.waiting
    /\ running' = r.running
    /\ swapped' = r.swapped
    /\ seq_status' = r.status
    /\ block_table' = r.table
    /\ preempted_ever' = (preempted_ever \/ PreemptCalled(r))
    /\ admitted_log' = IF preempted_ever \/ PreemptCalled(r) THEN <<>>
                       ELSE admitted_log \o r.scheduled
    /\ UNCHANGED <<num_added, seq_len, max_running_seqs>>

\* A tick that raised: the queues stay as the exception left them.
CommitError(r) ==
    /\ CommitQueues(r)
    /\ error' = r.error
    /\ ReturnsNothing
    /\ IF r.error = "AssertWaiting" THEN KeptPlanSees(r.running) ELSE KeptPlanUnbound

CommitPromptPlan(a) ==
    /\ CommitQueues(a)
    /\ error' = "none"
    /\ Returns(SchedulerOutputs(a.scheduled, TRUE, PaddedTokens(a.seq_lens),
                                a.r_in, a.s_in, a.r_out, a.s_out, a.r_copy, a.s_copy,
                                a.ignored))
    /\ KeptPlanSees(a.running)

CommitDecodePlan(b) ==
    IF ~OutputsAssertionOk(b.r_in, b.s_in, b.r_out, b.s_out)
    THEN CommitError([b EXCEPT !.error = "AssertOutputs"])
    ELSE /\ CommitQueues(b)
         /\ error' = "none"
         /\ Returns(SchedulerOutputs(b.running, FALSE, NumRunningSeqs(b.status, b.running),
                                     b.r_in, b.s_in, b.r_out, b.s_out, b.r_copy, b.s_copy,
                                     <<>>))
         /\ KeptPlanTaken(b.running)

\* Mutant: a tick that only rejected prompts goes on to the decode phase.
ReturnsPromptPlan_ScheduledOnly(a) == a.scheduled # <<>>

\* `if scheduled or ignored_seq_groups`
ReturnsPromptPlan(a) == a.scheduled # <<>> \/ a.ignored # <<>>

\* The groups that hold blocks on the GPU.
GpuHolders(table) == {g \in Groups : \E s \in Slots : table[g][s] = "gpu"}

\* can_allocate was asked about g, in the admission loop that ended in state a, while
\* no other group held blocks: none did when the tick started and the loop had
\* admitted no group before it reached g.
AskedWithRoom(g, a) ==
    /\ GpuHolders(block_table) \ {g} = {}
    /\ ~\E i, j \in 1..Len(waiting) :
           /\ i < j
           /\ waiting[j] = g
           /\ waiting[i] \in SeqSet(a.scheduled)

\* The answers a block manager with room for one group gives to the admission loop
\* that ended in state a: OK for a group it asked about while no other group held blocks.
RoomForOneAllocate(can_allocate, a) ==
    \A g \in DOMAIN can_allocate :
        (/\ g \notin SeqSet(a.waiting) \/ g = Head(a.waiting)
         /\ ~PromptTooLong(seq_len[g])
         /\ AskedWithRoom(g, a)) => can_allocate[g] = "OK"

\* The answers such a block manager gives to the swap-in loop that ended in state b:
\* true for the group at the front of swapped while no other group holds blocks.
RoomForOneSwapIn(can_swap_in, b) ==
    (SwapInAllowed(b) /\ b.swapped # <<>> /\ GpuHolders(b.table) \ {Head(b.swapped)} = {})
        => Head(b.swapped) \in can_swap_in

\* schedule() / prepare_input(): one tick.  Both call _schedule and differ only in the
\* metadata they build from the plan.
Schedule ==
    /\ error = "none"
    /\ \E can_allocate \in [IF EntersPromptPhase(swapped) THEN SeqSet(waiting) ELSE {}
                             -> AllocStatus] :
         LET a == PromptPhase(TickStart, can_allocate)
         IN  /\ environment.room_for_one => RoomForOneAllocate(can_allocate, a)
             /\ IF a.error # "none" THEN CommitError(a)
                ELSE IF ReturnsPromptPlan(a) THEN CommitPromptPlan(a)
                ELSE \E append_fails \in AppendAnswers,
                        bm \in BlockManagerAnswers :
                     \E can_swap_out \in SwapOutAnswers(append_fails) :
                       LET r == ReservePhase(a, append_fails, can_swap_out, bm)
                       IN  IF r.error # "none" THEN CommitError(r)
                           ELSE \E can_swap_in \in SUBSET SwapInCandidates(r) :
                                  LET b == SwapInPhase(r, can_swap_in, bm)
                                  IN  /\ environment.room_for_one
                                           => RoomForOneSwapIn(can_swap_in, b)
                                      /\ CommitDecodePlan(b)

\* Mutant: a new group is put at the front of waiting.
Enqueue_Front(q, g) == <<g>> \o q

\* self.waiting.append(seq_group)
Enqueue(q, g) == Append(q, g)

\* The number of groups that arrive in a behaviour.
GroupLimit ==
    IF engine_keeps_plan THEN KeptPlanGroups
    ELSE IF environment.room_for_one THEN RoomyGroups
    ELSE NumGroups

\* A request for more sequences than the scheduler runs at once.
WideRequests == [len : {1}, best_of : {max_num_seqs + 1}]

\* The requests that arrive in a behaviour.
ArrivingRequests == IF environment.wide_requests THEN Requests \cup WideRequests ELSE Requests

\* add_seq_group: the next group arrives with one WAITING prompt sequence.
AddSeqGroup ==
    /\ error = "none"
    /\ num_added < GroupLimit
    /\ \E req \in ArrivingRequests :
         LET g == num_added + 1
         IN  /\ num_added' = g
             /\ waiting' = Enqueue(waiting, g)
             /\ seq_status' = [seq_status EXCEPT ![g][1] = "WAITING"]
             /\ seq_len' = [seq_len EXCEPT ![g] = req.len]
             /\ max_running_seqs' = [max_running_seqs EXCEPT ![g] = req.best_of]
    /\ ReturnsNothing
    /\ KeptPlanUntouched
    /\ UNCHANGED <<running, swapped, block_table, error, admitted_log, preempted_ever>>

\* Mutant: every group of the queue is taken for a match.
Matched_All(q, request_ids) == SeqSet(q)

\* `if seq_group.request_id in request_ids`: the groups of a queue the call names.
Matched(q, request_ids) == {g \in SeqSet(q) : g \in request_ids}

\* One pass of abort_seq_group's outer loop over a state queue: the groups matched
\* are removed from the queue and from request_ids, their live sequences aborted and freed.
AbortInQueue(a, q) ==
    LET hit == Matched(q, a.request_ids)
    IN  [request_ids |-> a.request_ids \ hit,
         removed |-> a.removed \cup hit,
         freed |-> a.freed \cup {<<g, s>> \in hit \X Slots :
                                    s \in unfinished_seqs(a.status, g)},
         status |-> [g \in Groups |->
                       IF g \in hit
                       THEN [s \in Slots |->
                               IF s \in unfinished_seqs(a.status, g)
                               THEN "FINISHED_ABORTED" ELSE a.status[g][s]]
                       ELSE a.status[g]],
         table |-> [g \in Groups |->
                      IF g \in hit
                      THEN [s \in Slots |->
                              IF s \in unfinished_seqs(a.status, g)
                              THEN "none" ELSE a.table[g][s]]
                      ELSE a.table[g]]]

\* Mutant: the matched groups are not removed from the queue.
KeepUnaborted_KeepAll(q, before, after) == q

\* state_queue.remove(aborted_group) for the groups matched in this pass
KeepUnaborted(q, before, after) ==
    SelectSeq(q, LAMBDA g : g \notin (before.request_ids \ after.request_ids))

\* abort_seq_group(request_ids) called in the scheduler state st: the queues, statuses
\* and block tables it leaves, and the sequences it passed to free_seq.
AbortFrom(st, request_ids) ==
    LET a0 == [request_ids |-> request_ids, removed |-> {}, freed |-> {},
               status |-> st.status, table |-> st.table]
        a1 == AbortInQueue(a0, st.waiting)
        a2 == AbortInQueue(a1, st.running)
        a3 == AbortInQueue(a2, st.swapped)
    IN  [waiting |-> KeepUnaborted(st.waiting, a0, a1),
         running |-> KeepUnaborted(st.running, a1, a2),
         swapped |-> KeepUnaborted(st.swapped, a2, a3),
         status |-> a3.status,
         table |-> a3.table,
         freed |-> a3.freed]

\* abort_seq_group(request_ids) called in the current state.
abort_seq_group(request_ids) ==
    AbortFrom([waiting |-> waiting, running |-> running, swapped |-> swapped,
               status |-> seq_status, table |-> block_table], request_ids)

\* The request ids a caller passes: ids of queued groups and unknown ids alike.
AbortRequests == (SUBSET Groups) \ {{}}

AbortSeqGroup ==
    /\ error = "none"
    /\ \E request_ids \in AbortRequests :
         LET r == abort_seq_group(request_ids)
         IN  /\ waiting' = r.waiting
             /\ running' = r.running
             /\ swapped' = r.swapped
             /\ seq_status' = r.status
             /\ block_table' = r.table
             /\ KeptPlanSees(r.running)
    /\ ReturnsNothing
    /\ UNCHANGED <<num_added, seq_len, max_running_seqs, error, admitted_log,
                   preempted_ever>>

\* free_finished_seq_groups: self.running is rebound to a new deque.
FreeFinishedSeqGroups ==
    /\ error = "none"
    /\ running' = SelectSeq(running, LAMBDA g : ~group_is_finished(seq_status, g))
    /\ ReturnsNothing
    /\ KeptPlanUnbound
    /\ UNCHANGED <<waiting, swapped, num_added, seq_status, seq_len, max_running_seqs,
                   block_table, error, admitted_log, preempted_ever>>

\* The engine ends a running sequence and calls free_seq.
FinishSeqOf(g, s) ==
    /\ error = "none"
    /\ g \in SeqSet(running)
    /\ s \in get_seqs(seq_status, g, "RUNNING")
    /\ seq_status' = [seq_status EXCEPT ![g][s] = "FINISHED_STOPPED"]
    /\ block_table' = FreeTables(block_table, g, {s})
    /\ ReturnsNothing
    /\ KeptPlanUntouched
    /\ UNCHANGED <<waiting, running, swapped, num_added, seq_len, max_running_seqs,
                   error, admitted_log, preempted_ever>>

FinishSeq == \E g \in Groups, s \in Slots : FinishSeqOf(g, s)

\* The engine forks a running sequence (beam search / best_of) and calls fork_seq: the
\* child shares the parent's blocks.  A group never holds more unfinished sequences than
\* get_max_num_running_seqs().
ForkSeq ==
    /\ error = "none"
    /\ \E g \in SeqSet(running) : \E parent \in get_seqs(seq_status, g, "RUNNING") :
        \E child \in Slots :
         /\ seq_status[g][child] = "NONE"
         /\ \A s \in Slots : s < child => seq_status[g][s] # "NONE"
         /\ Cardinality(unfinished_seqs(seq_status, g)) < get_max_num_running_seqs(g)
         /\ seq_status' = [seq_status EXCEPT ![g][child] = "RUNNING"]
         /\ block_table' = [block_table EXCEPT ![g][child] = block_table[g][parent]]
    /\ ReturnsNothing
    /\ KeptPlanUntouched
    /\ UNCHANGED <<waiting, running, swapped, num_added, seq_len, max_running_seqs,
                   error, admitted_log, preempted_ever>>

\* The engine appends generated tokens to the sequence of a running group, which grows
\* to the next length told apart.  The scheduler reads a length only of a WAITING
\* sequence, so growth is tracked for the groups that can return to waiting: those
\* preempted by recomputation.
AppendToken ==
    /\ error = "none"
    /\ \E g \in SeqSet(running) : \E len \in SeqLens :
         /\ PreemptionMode(g) = "RECOMPUTE"
         /\ seq_status[g][1] = "RUNNING"
         /\ len > seq_len[g]
         /\ \A l \in SeqLens : l > seq_len[g] => l >= len
         /\ seq_len' = [seq_len EXCEPT ![g] = len]
    /\ ReturnsNothing
    /\ KeptPlanUntouched
    /\ UNCHANGED <<waiting, running, swapped, num_added, seq_status, max_running_seqs,
                   block_table, error, admitted_log, preempted_ever>>

Next ==
    \/ AddSeqGroup
    \/ AbortSeqGroup
    \/ Schedule
    \/ FreeFinishedSeqGroups
    \/ FinishSeq
    \/ ForkSeq
    \/ AppendToken

Spec == Init /\ [][Next]_vars

\* The engine keeps the decode plan a tick handed it while it calls the scheduler again.
KeptPlanInit ==
    /\ waiting = <<>>
    /\ running = <<>>
    /\ swapped = <<>>
    /\ num_added = 0
    /\ seq_status = [g \in Groups |-> [s \in Slots |-> "NONE"]]
    /\ seq_len = [g \in Groups |-> 0]
    /\ max_running_seqs = [g \in Groups |-> 1]
    /\ block_table = [g \in Groups |-> [s \in Slots |-> "none"]]
    /\ plan = NoPlan
    /\ plan_returned = FALSE
    /\ error = "none"
    /\ admitted_log = <<>>
    /\ preempted_ever = FALSE
    /\ engine_keeps_plan = TRUE
    /\ kept_plan = NoKeptPlan
    /\ environment = AnyEnvironment

KeptPlanSpec == KeptPlanInit /\ [][Next]_vars

\* The scheduler run as an engine runs it: ticks keep being run, every running
\* sequence finishes in the end, finished groups are reaped, and the block manager
\* has room for any one group alone.  Requests may ask for more sequences than
\* max_num_seqs.
RoomyInit ==
    /\ waiting = <<>>
    /\ running = <<>>
    /\ swapped = <<>>
    /\ num_added = 0
    /\ seq_status = [g \in Groups |-> [s \in Slots |-> "NONE"]]
    /\ seq_len = [g \in Groups |-> 0]
    /\ max_running_seqs = [g \in Groups |-> 1]
    /\ block_table = [g \in Groups |-> [s \in Slots |-> "none"]]
    /\ plan = NoPlan
    /\ plan_returned = FALSE
    /\ error = "none"
    /\ admitted_log = <<>>
    /\ preempted_ever = FALSE
    /\ engine_keeps_plan = FALSE
    /\ kept_plan = NoKeptPlan
    /\ environment = [room_for_one |-> TRUE, wide_requests |-> TRUE]

\* Ticks keep being run, as long as none has raised; finished groups are reaped;
\* every sequence that keeps running finishes.
EngineLoop ==
    /\ []<><<Schedule>>_vars \/ []<>(error # "none")
    /\ WF_vars(FreeFinishedSeqGroups)
    /\ \A g \in Groups, s \in Slots : SF_vars(FinishSeqOf(g, s))

RoomySpec == RoomyInit /\ [][Next]_vars /\ EngineLoop

TypeOK ==
    /\ SeqSet(waiting) \cup SeqSet(running) \cup SeqSet(swapped) \subseteq 1..num_added
    /\ seq_status \in [Groups -> [Slots -> Statuses]]
    /\ block_table \in [Groups -> [Slots -> {"none", "gpu", "cpu"}]]
    /\ error \in {"none", "RuntimeError", "AssertWaiting", "AssertRecompute", "AssertOutputs"}
    /\ engine_keeps_plan \in BOOLEAN
    /\ kept_plan.is_self_running \in BOOLEAN
    /\ environment \in [room_for_one : BOOLEAN, wide_requests : BOOLEAN]
    /\ SeqSet(kept_plan.scheduled_seq_groups) \subseteq 1..num_added

\* ================================================================ claims
NoDuplicates(q) == \A i, j \in 1..Len(q) : i # j => q[i] # q[j]

Queued == SeqSet(waiting) \cup SeqSet(running) \cup SeqSet(swapped)

\* The step just taken is a tick: it returned a plan or raised.
TickStep == plan_returned' \/ (error = "none" /\ error' # "none")

\* C1 Queue disjointness: in every reachable state (groups added once each, aborts,
\* ticks, reaping) a group is in at most one of waiting, running, swapped, and at
\* most once in that queue.
C1_QueueDisjointness ==
    /\ NoDuplicates(waiting) /\ NoDuplicates(running) /\ NoDuplicates(swapped)
    /\ SeqSet(waiting) \cap SeqSet(running) = {}
    /\ SeqSet(waiting) \cap SeqSet(swapped) = {}
    /\ SeqSet(running) \cap SeqSet(swapped) = {}

\* A tick has preempted by recomputation and by swap: all three queues are occupied.
C1_Witness ==
    /\ plan_returned /\ ~plan.prompt_run
    /\ plan.retrieval_blocks_to_swap_out # {}
    /\ waiting # <<>> /\ running # <<>> /\ swapped # <<>>

\* C2 Status consistency: every sequence of a group in waiting is WAITING; every
\* sequence of a group in swapped is SWAPPED or finished; every sequence of a group in
\* running is RUNNING or finished.
C2_StatusConsistency ==
    /\ \A g \in SeqSet(waiting) : \A s \in all_seqs(seq_status, g) :
          seq_status[g][s] = "WAITING"
    /\ \A g \in SeqSet(swapped) : \A s \in all_seqs(seq_status, g) :
          seq_status[g][s] \in {"SWAPPED"} \cup FinishedStatuses
    /\ \A g \in SeqSet(running) : \A s \in all_seqs(seq_status, g) :
          seq_status[g][s] \in {"RUNNING"} \cup FinishedStatuses

\* After a tick: a group back in waiting after a recomputation, a swapped group with
\* a finished and a SWAPPED sequence, and a running group.
C2_Witness ==
    /\ plan_returned
    /\ \E g \in SeqSet(waiting) : block_table[g][1] = "none" /\ preempted_ever
    /\ \E g \in SeqSet(swapped) :
          /\ get_seqs(seq_status, g, "SWAPPED") # {}
          /\ get_seqs(seq_status, g, "FINISHED_STOPPED") # {}
    /\ running # <<>>

\* C3 Plan consistency: no tick fails the SchedulerOutputs constructor's assertions,
\* and in every plan returned the swap-in and swap-out maps of a class are not both
\* non-empty.
C3_PlanConsistency ==
    /\ error # "AssertOutputs"
    /\ plan_returned =>
          /\ ~(plan.retrieval_blocks_to_swap_in # {} /\ plan.retrieval_blocks_to_swap_out # {})
          /\ ~(plan.streaming_blocks_to_swap_in # {} /\ plan.streaming_blocks_to_swap_out # {})

\* A tick swapped a group out while another group was waiting in swapped to be
\* swapped in.
C3_Witness ==
    /\ plan_returned
    /\ plan.retrieval_blocks_to_swap_out # {}
    /\ plan.streaming_blocks_to_swap_out # {}
    /\ SeqSet(swapped) \ plan.retrieval_blocks_to_swap_out # {}

\* C4 Running-sequence bound: the sum of get_max_num_running_seqs() over the groups in
\* running never exceeds max_num_seqs.
C4_RunningBound == SumMaxRunning(running) <= max_num_seqs

\* A tick swapped a group in and filled running exactly to the cap.
C4_Witness ==
    /\ plan_returned
    /\ plan.retrieval_blocks_to_swap_in # {}
    /\ Len(running) > 1
    /\ SumMaxRunning(running) = max_num_seqs

\* The prompt lengths of the groups of a plan, in plan order.
LensOf(q) == [i \in 1..Len(q) |-> seq_len[q[i]]]

PlanMapsEmpty(p) ==
    /\ p.retrieval_blocks_to_swap_in = {} /\ p.streaming_blocks_to_swap_in = {}
    /\ p.retrieval_blocks_to_swap_out = {} /\ p.streaming_blocks_to_swap_out = {}
    /\ p.retrieval_blocks_to_copy = {} /\ p.streaming_blocks_to_copy = {}

\* C5 as stated: in every plan num_batched_tokens is at most max_num_batched_tokens.
C5_Original_TokenBound ==
    plan_returned => plan.num_batched_tokens <= max_num_batched_tokens

\* C5 Token bound, amended: a prompt plan reports the padded rectangle (number of
\* admitted prompts times the longest admitted prompt, 0 when none), which can exceed
\* max_num_batched_tokens, while the sum of the admitted prompt lengths is at most
\* max_num_batched_tokens; a decode plan reports at most max_num_seqs tokens.
C5_TokenBound ==
    plan_returned =>
        LET lens == LensOf(plan.scheduled_seq_groups)
        IN  IF plan.prompt_run
            THEN /\ plan.num_batched_tokens =
                       IF lens = <<>> THEN 0 ELSE Len(lens) * Max(lens)
                 /\ Sum(lens) <= max_num_batched_tokens
            ELSE plan.num_batched_tokens <= max_num_seqs

\* A prompt plan admits two prompts whose sum is exactly the token budget and whose
\* padded rectangle is above it.
C5_Witness ==
    /\ plan_returned /\ plan.prompt_run
    /\ Len(plan.scheduled_seq_groups) > 1
    /\ Sum(LensOf(plan.scheduled_seq_groups)) = max_num_batched_tokens
    /\ plan.num_batched_tokens > max_num_batched_tokens

\* C6 Mode exclusivity: a tick that returns a plan with prompt_run = true started with
\* swapped empty, and all six block-movement maps of the plan are empty.
C6_ModeExclusivity ==
    [][(plan_returned' /\ plan'.prompt_run) => (swapped = <<>> /\ PlanMapsEmpty(plan'))]_vars

\* A prompt plan admits a group after an earlier tick has preempted.
C6_Witness ==
    /\ plan_returned /\ plan.prompt_run
    /\ plan.scheduled_seq_groups # <<>>
    /\ preempted_ever
    /\ swapped = <<>>

\* C7 FCFS admission order: as long as no tick has preempted, the groups admitted so
\* far were admitted in the order in which they were added, and every group still
\* waiting was added after every group admitted.
C7_FcfsAdmissionOrder ==
    ~preempted_ever =>
        /\ \A i, j \in 1..Len(admitted_log) : i < j => admitted_log[i] < admitted_log[j]
        /\ \A i \in 1..Len(admitted_log) : \A g \in SeqSet(waiting) : admitted_log[i] < g

\* Without preemption, groups were admitted in more than one tick and one is waiting.
C7_Witness ==
    /\ ~preempted_ever
    /\ plan_returned /\ plan.prompt_run
    /\ Len(admitted_log) > Len(plan.scheduled_seq_groups)
    /\ plan.scheduled_seq_groups # <<>>
    /\ Len(admitted_log) > 2

\* The set S as a sequence in arrival order.
RECURSIVE InArrivalOrder(_)
InArrivalOrder(S) ==
    IF S = {} THEN <<>>
    ELSE LET g == CHOOSE x \in S : \A y \in S : x <= y
         IN  <<g>> \o InArrivalOrder(S \ {g})

\* _preempt(g) called in the current state for a group g of running, with swap space.
PreemptOf(g) ==
    preempt([TickStart EXCEPT !.running = Remove(running, g)], g,
            Groups, [streaming |-> TRUE, cow |-> FALSE])

\* C8 Preemption destination.  (a) _preempt called on a running group: a group of one
\* sequence (get_max_num_running_seqs() = 1, its sequence RUNNING) has the sequence set
\* to WAITING, its blocks freed, and is put at the head of waiting; a multi-sequence
\* group has its RUNNING sequences set to SWAPPED and is appended at the tail of swapped;
\* either way it is not in running.  (b) In a tick that returns, the groups that left
\* running are exactly, for one-sequence groups, at the front of waiting ahead of the
\* groups that waited before, WAITING and without blocks, and for multi-sequence
\* groups, in swapped with no sequence RUNNING.
C8_PreemptionDestination ==
    [][/\ \A g \in SeqSet(running) :
            LET p == PreemptOf(g)
            IN  IF get_max_num_running_seqs(g) = 1
                THEN Cardinality(get_seqs(seq_status, g, "RUNNING")) = 1 =>
                       /\ p.error = "none"
                       /\ p.waiting = <<g>> \o waiting
                       /\ p.swapped = swapped
                       /\ g \notin SeqSet(p.running)
                       /\ \A s \in get_seqs(seq_status, g, "RUNNING") :
                             p.status[g][s] = "WAITING" /\ p.table[g][s] = "none"
                ELSE /\ p.error = "none"
                     /\ p.swapped = Append(swapped, g)
                     /\ p.waiting = waiting
                     /\ g \notin SeqSet(p.running)
                     /\ \A s \in Slots :
                           p.status[g][s] = IF seq_status[g][s] = "RUNNING" THEN "SWAPPED"
                                            ELSE seq_status[g][s]
       /\ (plan_returned' /\ ~plan'.prompt_run) =>
            LET left == SeqSet(running) \ SeqSet(running')
                recomputed == {g \in left : get_max_num_running_seqs(g) = 1}
            IN  /\ waiting' = InArrivalOrder(recomputed) \o waiting
                /\ \A g \in recomputed :
                      /\ Cardinality(get_seqs(seq_status', g, "WAITING")) = 1
                      /\ \A s \in Slots : block_table'[g][s] = "none"
                /\ \A g \in left \ recomputed :
                      /\ g \in SeqSet(swapped') /\ g \notin SeqSet(swapped)
                      /\ get_seqs(seq_status', g, "RUNNING") = {}
                      /\ get_seqs(seq_status', g, "SWAPPED") =
                            get_seqs(seq_status, g, "RUNNING")
      ]_vars

\* One tick preempted a one-sequence group by recomputation and a multi-sequence group
\* by swap.
C8_Witness ==
    /\ plan_returned /\ ~plan.prompt_run
    /\ plan.retrieval_blocks_to_swap_out # {}
    /\ \E g \in SeqSet(waiting) : seq_status[g][1] = "WAITING" /\ g < Last(swapped)
    /\ running # <<>>

\* The tick run in the scheduler state r with no group queued: the state it ends in.
TickWhenIdle(r) ==
    LET start == [TickStart EXCEPT !.waiting = r.waiting, !.running = r.running,
                                   !.swapped = r.swapped, !.status = r.status,
                                   !.table = r.table]
        bm == [streaming |-> TRUE, cow |-> TRUE]
    IN  SwapInPhase(ReservePhase(PromptPhase(start, <<>>), <<>>, {}, bm), {}, bm)

\* C9 Abort removes the group: abort_seq_group(ids) called in any reachable state leaves
\* every queued group it names in none of the queues, each of its sequences that was
\* not finished FINISHED_ABORTED and without blocks, and its finished sequences as they
\* were; when it names every queued group, has_unfinished_seqs() is false afterwards
\* and the next tick returns an empty plan.
C9_AbortRemovesGroup ==
    \A ids \in AbortRequests :
        LET r == abort_seq_group(ids)
        IN  /\ \A g \in ids \cap Queued :
                  /\ g \notin SeqSet(r.waiting) \cup SeqSet(r.running) \cup SeqSet(r.swapped)
                  /\ \A s \in Slots :
                        IF s \in unfinished_seqs(seq_status, g)
                        THEN r.status[g][s] = "FINISHED_ABORTED" /\ r.table[g][s] = "none"
                        ELSE r.status[g][s] = seq_status[g][s]
            /\ Queued \subseteq ids =>
                  /\ r.waiting = <<>> /\ r.running = <<>> /\ r.swapped = <<>>
                  /\ LET b == TickWhenIdle(r)
                     IN  /\ b.error = "none"
                         /\ b.scheduled = <<>> /\ b.ignored = <<>> /\ b.running = <<>>
                         /\ b.r_in = {} /\ b.s_in = {} /\ b.r_out = {} /\ b.s_out = {}
                         /\ b.r_copy = {} /\ b.s_copy = {}

\* A running group was aborted, nothing is queued, and the tick after it returned an
\* empty plan.
C9_Witness ==
    /\ plan_returned /\ is_empty
    /\ ~has_unfinished_seqs
    /\ \E g \in Groups :
          /\ seq_status[g][1] = "FINISHED_ABORTED"
          /\ seq_status[g][2] = "FINISHED_ABORTED"
    /\ \A g \in 1..num_added : \A s \in all_seqs(seq_status, g) :
          seq_status[g][s] = "FINISHED_ABORTED"

\* C10 Swap round trip, step by step.  A group enters running only from waiting (its
\* WAITING sequence becomes RUNNING) or from swapped (its SWAPPED sequences become
\* RUNNING, the tick's swap-in map names it); it enters swapped only from running (its
\* RUNNING sequences become SWAPPED, the swap-out map of the tick's plan names it); across both
\* swaps the group keeps its sequences and its finished sequences their status.  So a
\* group swapped back in is the group that was admitted, it went waiting, running,
\* swapped, running, and its prompt sequence, unless it finished on the way, WAITING,
\* RUNNING, SWAPPED, RUNNING.
C10_SwapRoundTrip ==
    [][\A g \in Groups :
         /\ (g \in SeqSet(swapped') /\ g \notin SeqSet(swapped)) =>
               /\ g \in SeqSet(running)
               /\ plan_returned' => g \in plan'.retrieval_blocks_to_swap_out
               /\ all_seqs(seq_status', g) = all_seqs(seq_status, g)
               /\ \A s \in Slots :
                     seq_status'[g][s] = IF seq_status[g][s] = "RUNNING" THEN "SWAPPED"
                                         ELSE seq_status[g][s]
         /\ (g \in SeqSet(running') /\ g \notin SeqSet(running)) =>
               \/ /\ g \in SeqSet(waiting)
                  /\ \A s \in Slots :
                        seq_status'[g][s] = IF seq_status[g][s] = "WAITING" THEN "RUNNING"
                                            ELSE seq_status[g][s]
               \/ /\ g \in SeqSet(swapped)
                  /\ g \in plan'.retrieval_blocks_to_swap_in
                  /\ all_seqs(seq_status', g) = all_seqs(seq_status, g)
                  /\ \A s \in Slots :
                        seq_status'[g][s] = IF seq_status[g][s] = "SWAPPED" THEN "RUNNING"
                                            ELSE seq_status[g][s]
      ]_vars

\* A tick swapped a group of two live sequences back in.
C10_Witness ==
    /\ plan_returned
    /\ \E g \in plan.retrieval_blocks_to_swap_in :
          /\ g \in SeqSet(running)
          /\ Cardinality(get_seqs(seq_status, g, "RUNNING")) > 1

\* The queues, statuses and block tables of two scheduler states agree.
SameSchedulerState(a, b) ==
    /\ a.waiting = b.waiting /\ a.running = b.running /\ a.swapped = b.swapped
    /\ a.status = b.status /\ a.table = b.table

\* C11 Abort is idempotent and ignores unknown ids: in every reachable state,
\* abort_seq_group with ids that match no queued group changes no queue, no status
\* and no block table and frees nothing, and a second abort_seq_group with the same
\* ids leaves the state the first call left and frees nothing.
C11_AbortIdempotent ==
    \A ids \in AbortRequests :
        LET now == [waiting |-> waiting, running |-> running, swapped |-> swapped,
                    status |-> seq_status, table |-> block_table]
            once == abort_seq_group(ids)
            twice == AbortFrom(once, ids)
        IN  /\ ids \cap Queued = {} => SameSchedulerState(once, now) /\ once.freed = {}
            /\ SameSchedulerState(twice, once)
            /\ twice.freed = {}

\* After an abort: a group with a finished and an aborted sequence is in no queue
\* (its id is now unknown) while another group is still swapped out.
C11_Witness ==
    /\ ~plan_returned
    /\ \E g \in Groups \ Queued :
          /\ get_seqs(seq_status, g, "FINISHED_ABORTED") # {}
          /\ get_seqs(seq_status, g, "FINISHED_STOPPED") # {}
    /\ swapped # <<>>

\* The answers can_allocate may give for the groups waiting now.
AllocateAnswers == [SeqSet(waiting) -> AllocStatus]

\* The groups the admission loop looked at, given the state `a` it ended in: those it
\* took out of waiting and the group at which it stopped.
ReachedByAdmission(a) ==
    (SeqSet(waiting) \ SeqSet(a.waiting))
        \cup (IF a.waiting # <<>> THEN {Head(a.waiting)} ELSE {})

\* C12 Input rejection.  In every reachable state with swapped empty and for every
\* answer of can_allocate, a group the admission loop reaches is rejected exactly when
\* its prompt is longer than prompt_limit or can_allocate answers NEVER; a rejected
\* group has its sequence FINISHED_IGNORED, is listed once in the tick's
\* ignored_seq_groups and is in no queue.  A group with an ignored sequence is never
\* in a queue, never in a plan's scheduled_seq_groups, and the groups a plan lists as
\* ignored were waiting, not yet ignored, when the tick started.
C12_InputRejection ==
    /\ [](/\ swapped = <<>> =>
              \A can_allocate \in AllocateAnswers :
                 LET a == PromptPhase(TickStart, can_allocate)
                 IN  a.error = "none" =>
                       /\ \A g \in ReachedByAdmission(a) :
                             g \in SeqSet(a.ignored)
                               <=> (seq_len[g] > prompt_limit \/ can_allocate[g] = "NEVER")
                       /\ NoDuplicates(a.ignored)
                       /\ \A g \in SeqSet(a.ignored) :
                             /\ \A s \in all_seqs(a.status, g) :
                                   a.status[g][s] = "FINISHED_IGNORED"
                             /\ g \notin SeqSet(a.waiting) \cup SeqSet(a.running)
                                          \cup SeqSet(a.swapped)
          /\ \A g \in Groups :
                get_seqs(seq_status, g, "FINISHED_IGNORED") # {} =>
                   /\ g \notin Queued
                   /\ plan_returned => \A i \in 1..Len(plan.scheduled_seq_groups) :
                                          plan.scheduled_seq_groups[i] # g)
    /\ [][plan_returned' =>
             \A i \in 1..Len(plan'.ignored_seq_groups) :
                LET g == plan'.ignored_seq_groups[i]
                IN  /\ g \in SeqSet(waiting)
                    /\ get_seqs(seq_status, g, "FINISHED_IGNORED") = {}
                    /\ get_seqs(seq_status', g, "FINISHED_IGNORED") # {}]_vars

\* A prompt plan admits a prompt of exactly prompt_limit tokens and rejects two
\* groups, one for its length and one on the block manager's NEVER.
C12_Witness ==
    /\ plan_returned /\ plan.prompt_run
    /\ \E i \in 1..Len(plan.scheduled_seq_groups) :
          seq_len[plan.scheduled_seq_groups[i]] = prompt_limit
    /\ \E i, j \in 1..Len(plan.ignored_seq_groups) :
          /\ seq_len[plan.ignored_seq_groups[i]] > prompt_limit
          /\ seq_len[plan.ignored_seq_groups[j]] <= prompt_limit

\* C13 as stated, for the decode plan the engine keeps: no call changes its
\* scheduled_seq_groups; only a tick that returns a new decode plan replaces it.
C13_PlanImmutable ==
    [][~(plan_returned' /\ ~plan'.prompt_run) =>
          kept_plan'.scheduled_seq_groups = kept_plan.scheduled_seq_groups]_vars

\* The group at position i of waiting is deferred by the admission loop that has
\* admitted the groups `admitted` before it: its prompt is not too long and
\* can_allocate answers LATER, or answers OK while its prompt does not fit the token
\* budget or its sequences do not fit max_num_seqs.
DeferredAt(i, admitted, can_allocate) ==
    LET g == waiting[i]
        before == SelectSeq(SubSeq(waiting, 1, i - 1), LAMBDA x : x \in admitted)
    IN  /\ seq_len[g] <= prompt_limit
        /\ \/ can_allocate[g] = "LATER"
           \/ /\ can_allocate[g] = "OK"
              /\ \/ Sum(LensOf(before)) + seq_len[g] > max_num_batched_tokens
                 \/ SumMaxRunning(running) + SumMaxRunning(before)
                       + get_max_num_running_seqs(g) > max_num_seqs

\* q is what is left of p after its first Len(p) - Len(q) elements are taken away.
IsSuffix(q, p) ==
    /\ Len(q) <= Len(p)
    /\ q = SubSeq(p, Len(p) - Len(q) + 1, Len(p))

\* C14 Head-of-line admission.  In every reachable state with swapped empty and for
\* every answer of can_allocate, the admission loop takes groups from the front of
\* waiting until the first deferred one: what it leaves in waiting is a suffix of
\* waiting in the old order, its head (if any) is deferred, no group before it was
\* deferred, and every group before it was admitted or rejected.  A tick that
\* returns a prompt plan leaves exactly that suffix in waiting, and the groups it took
\* are the plan's scheduled and ignored groups.
C14_HeadOfLine ==
    /\ [](swapped = <<>> =>
            \A can_allocate \in AllocateAnswers :
               LET a == PromptPhase(TickStart, can_allocate)
                   k == Len(waiting) - Len(a.waiting)
               IN  a.error = "none" =>
                     /\ IsSuffix(a.waiting, waiting)
                     /\ \A i \in 1..k :
                           /\ ~DeferredAt(i, SeqSet(a.scheduled), can_allocate)
                           /\ waiting[i] \in SeqSet(a.scheduled) \cup SeqSet(a.ignored)
                     /\ k < Len(waiting) => DeferredAt(k + 1, SeqSet(a.scheduled), can_allocate)
                     /\ SeqSet(a.scheduled) \cup SeqSet(a.ignored)
                           = {waiting[i] : i \in 1..k})
    /\ [][(plan_returned' /\ plan'.prompt_run) =>
             /\ IsSuffix(waiting', waiting)
             /\ SeqSet(waiting) \ SeqSet(waiting')
                   = SeqSet(plan'.scheduled_seq_groups) \cup SeqSet(plan'.ignored_seq_groups)]_vars

\* A prompt plan admitted the first group and deferred the second for the token
\* budget, and a third group that would have fitted the budget waits behind it.
C14_Witness ==
    /\ plan_returned /\ plan.prompt_run
    /\ Len(plan.scheduled_seq_groups) = 1
    /\ Len(waiting) = 2
    /\ seq_len[plan.scheduled_seq_groups[1]] + seq_len[waiting[1]] > max_num_batched_tokens
    /\ seq_len[plan.scheduled_seq_groups[1]] + seq_len[waiting[2]] <= max_num_batched_tokens
    /\ waiting[1] < waiting[2]

\* C15 A prompt tick does no decode work.  The admission phase preempts nothing and
\* calls _append_slot for no group, whatever can_allocate answers.  A tick in which a
\* group leaves waiting (admitted or rejected) returns a plan with prompt_run = true
\* whose scheduled_seq_groups are the groups admitted, in the order they waited, and
\* whose maps are empty; running is the old running followed by the admitted groups;
\* swapped is unchanged, no group is put back into waiting, and the groups that were
\* running keep their statuses and block tables and are not in scheduled_seq_groups.
C15_PromptTickNoDecode ==
    /\ [](\A can_allocate \in AllocateAnswers :
            LET a == PromptPhase(TickStart, can_allocate)
            IN  a.appended = <<>> /\ a.preempted = <<>>)
    /\ [][(TickStep /\ SeqSet(waiting) \ SeqSet(waiting') # {}) =>
             LET now_running == SeqSet(running')
                 admitted == SelectSeq(waiting, LAMBDA g : g \in now_running)
             IN  /\ plan_returned' /\ plan'.prompt_run
                 /\ plan'.scheduled_seq_groups = admitted
                 /\ running' = running \o admitted
                 /\ PlanMapsEmpty(plan')
                 /\ swapped' = swapped
                 /\ IsSuffix(waiting', waiting)
                 /\ \A g \in SeqSet(running) :
                       /\ seq_status'[g] = seq_status[g]
                       /\ block_table'[g] = block_table[g]
                       /\ g \notin SeqSet(admitted)]_vars

\* A prompt plan that only rejects a group is returned while a forked group is
\* running.
C15_Witness ==
    /\ plan_returned /\ plan.prompt_run
    /\ plan.scheduled_seq_groups = <<>>
    /\ plan.ignored_seq_groups # <<>>
    /\ \E g \in SeqSet(running) : Cardinality(get_seqs(seq_status, g, "RUNNING")) > 1

\* C16 No swap-in after preemption: in a tick that is not a prompt tick and in which a
\* group leaves running (it was preempted, by recomputation or by swap), no group
\* moves from swapped to running, and if the tick returns a plan both swap-in maps
\* are empty.
C16_NoSwapInAfterPreemption ==
    [][(/\ TickStep
        /\ ~(plan_returned' /\ plan'.prompt_run)
        /\ SeqSet(running) \ SeqSet(running') # {}) =>
          /\ SeqSet(swapped) \cap SeqSet(running') = {}
          /\ plan_returned' =>
                /\ plan'.retrieval_blocks_to_swap_in = {}
                /\ plan'.streaming_blocks_to_swap_in = {}]_vars

\* A decode tick swapped a group out while an older swapped group had room in running.
C16_Witness ==
    /\ plan_returned /\ ~plan.prompt_run
    /\ plan.retrieval_blocks_to_swap_out # {}
    /\ \E g \in SeqSet(swapped) \ plan.retrieval_blocks_to_swap_out :
          SumMaxRunning(running) + get_max_num_running_seqs(g) <= max_num_seqs

\* can_append_slot answers true at once for every running group: nothing is preempted.
NoAppendFails == [g \in SeqSet(running) |-> 0]

\* C17 Swap-in gating.  In every reachable state with groups swapped out, a tick in
\* which no append fails (so nothing is preempted) resumes, for every answer of
\* can_swap_in, a prefix of the priority-sorted swapped queue: every resumed group has
\* can_swap_in true and fits max_num_seqs together with the running groups and the
\* groups resumed before it; the first group left has can_swap_in false or does not
\* fit; the groups left keep their order, statuses and block tables and have no
\* swap-in map entry; the resumed groups are appended to running in that order with
\* their SWAPPED sequences RUNNING.  A decode tick that returns and from which no
\* group left running shows the same in the scheduler's state and plan.
C17_SwapInGating ==
    /\ [](swapped # <<>> =>
            \A bm \in BlockManagerAnswers, can_swap_in \in SUBSET SeqSet(swapped) :
               LET r == ReservePhase(PromptPhase(TickStart, <<>>), NoAppendFails, {}, bm)
                   b == SwapInPhase(r, can_swap_in, bm)
                   sorted == sort_by_priority(swapped)
                   k == Len(sorted) - Len(b.swapped)
                   resumed == SubSeq(sorted, 1, k)
                   Fits(i) == SumMaxRunning(running) + SumMaxRunning(SubSeq(sorted, 1, i))
                                <= max_num_seqs
               IN  /\ r.error = "none" /\ r.preempted = <<>>
                   /\ k >= 0
                   /\ b.swapped = SubSeq(sorted, k + 1, Len(sorted))
                   /\ b.running = sort_by_priority(running) \o resumed
                   /\ \A i \in 1..k : sorted[i] \in can_swap_in /\ Fits(i)
                   /\ k < Len(sorted) => sorted[k + 1] \notin can_swap_in \/ ~Fits(k + 1)
                   /\ b.r_in = SeqSet(resumed)
                   /\ b.s_in \subseteq SeqSet(resumed)
                   /\ \A g \in SeqSet(resumed) : \A s \in Slots :
                         b.status[g][s] = IF seq_status[g][s] = "SWAPPED" THEN "RUNNING"
                                          ELSE seq_status[g][s]
                   /\ \A g \in SeqSet(b.swapped) :
                         b.status[g] = seq_status[g] /\ b.table[g] = block_table[g])
    /\ [][(/\ plan_returned' /\ ~plan'.prompt_run
            /\ SeqSet(running) \subseteq SeqSet(running')) =>
             LET sorted == sort_by_priority(swapped)
                 resumed == SubSeq(sorted, 1, Len(sorted) - Len(swapped'))
             IN  /\ IsSuffix(swapped', sorted)
                 /\ running' = sort_by_priority(running) \o resumed
                 /\ plan'.retrieval_blocks_to_swap_in = SeqSet(resumed)
                 /\ plan'.streaming_blocks_to_swap_in \subseteq SeqSet(resumed)
                 /\ \A g \in SeqSet(swapped') : seq_status'[g] = seq_status[g]
                 /\ \A g \in SeqSet(resumed) :
                       get_seqs(seq_status', g, "RUNNING") = get_seqs(seq_status, g, "SWAPPED")]_vars

\* A decode tick resumed the first swapped group and left the second in swapped
\* although it would have fitted: can_swap_in was false for it.
C17_Witness ==
    /\ plan_returned /\ ~plan.prompt_run
    /\ plan.retrieval_blocks_to_swap_in # {}
    /\ swapped # <<>>
    /\ \A g \in plan.retrieval_blocks_to_swap_in : g < Head(swapped)
    /\ SumMaxRunning(running) + get_max_num_running_seqs(Head(swapped)) <= max_num_seqs
    /\ \A s \in all_seqs(seq_status, Head(swapped)) : seq_status[Head(swapped)][s] = "SWAPPED"

\* C18 Victim selection.  In every reachable state and for every pattern of failing
\* appends, the groups a decode tick preempts are, in the order it preempts them, the
\* priority-sorted running queue read from its low-priority end, each one the
\* lowest-priority group not yet preempted (the group being served only when nothing
\* is behind it), and the groups it keeps are the rest of the sorted queue in order.
\* After a decode tick that returns, the groups that stayed in running are a prefix
\* of the old running queue in priority order, each earlier in arrival than every
\* group that left.
C18_VictimSelection ==
    /\ [](\A append_fails \in AppendAnswers :
            LET r == ReservePhase(TickStart, append_fails, Groups,
                                  [streaming |-> FALSE, cow |-> FALSE])
                sorted == sort_by_priority(running)
                n == Len(sorted)
                k == Len(r.preempted)
            IN  r.error = "none" =>
                  /\ k <= n
                  /\ \A j \in 1..k : r.preempted[j] = sorted[n - j + 1]
                  /\ r.running = SubSeq(sorted, 1, n - k))
    /\ [][(plan_returned' /\ ~plan'.prompt_run) =>
             LET sorted == sort_by_priority(running)
                 left == SeqSet(running) \ SeqSet(running')
                 stayed == SelectSeq(sorted, LAMBDA g : g \notin left)
             IN  /\ stayed = SubSeq(sorted, 1, Len(sorted) - Cardinality(left))
                 /\ left # {} => running' = stayed
                 /\ \A g \in SeqSet(stayed) : \A v \in left : g < v]_vars

\* A decode tick swapped out the latest group and kept the two earlier ones, in
\* arrival order.
C18_Witness ==
    /\ plan_returned /\ ~plan.prompt_run
    /\ plan.retrieval_blocks_to_swap_out # {}
    /\ Len(running) = 2
    /\ running[1] < running[2]
    /\ \A v \in plan.retrieval_blocks_to_swap_out : running[2] < v

\* C19 Decode plan content.  For every answer of the block manager, the decode phase
\* calls _append_slot exactly once for each group it leaves in running, in the order
\* of running and for exactly the sequences of the group that are RUNNING when the
\* tick ends, and for no other group; no preempted group is left in running.  A tick
\* that returns and takes no group out of waiting returns prompt_run = false, no
\* ignored group, scheduled_seq_groups equal to running as the tick leaves it (the
\* surviving groups in priority order, then the groups swapped in, in priority
\* order), and num_batched_tokens equal to the number of RUNNING sequences of those
\* groups.
C19_DecodePlanContent ==
    /\ [](\A append_fails \in AppendAnswers, bm \in BlockManagerAnswers :
            \A can_swap_out \in SwapOutAnswers(append_fails) :
               LET r == ReservePhase(TickStart, append_fails, can_swap_out, bm)
               IN  r.error = "none" =>
                     \A can_swap_in \in SUBSET SwapInCandidates(r) :
                        LET b == SwapInPhase(r, can_swap_in, bm)
                        IN  /\ Len(b.appended) = Len(b.running)
                            /\ \A i \in 1..Len(b.running) :
                                  b.appended[i] = <<b.running[i],
                                                    get_seqs(b.status, b.running[i], "RUNNING")>>
                            /\ SeqSet(b.preempted) \cap SeqSet(b.running) = {})
    /\ [][(plan_returned' /\ SeqSet(waiting) \subseteq SeqSet(waiting')) =>
             LET now_running == SeqSet(running')
             IN  /\ ~plan'.prompt_run
                 /\ plan'.ignored_seq_groups = <<>>
                 /\ plan'.scheduled_seq_groups = running'
                 /\ running' = SelectSeq(sort_by_priority(running), LAMBDA g : g \in now_running)
                                  \o SelectSeq(sort_by_priority(swapped), LAMBDA g : g \in now_running)
                 /\ plan'.num_batched_tokens =
                       Cardinality({x \in now_running \X Slots :
                                      seq_status'[x[1]][x[2]] = "RUNNING"})
                 /\ \A g \in SeqSet(running) \ now_running :
                       \A i \in 1..Len(plan'.scheduled_seq_groups) :
                          plan'.scheduled_seq_groups[i] # g]_vars

\* A decode plan lists a surviving group and then a group swapped in by this tick,
\* and counts more tokens than groups.
C19_Witness ==
    /\ plan_returned /\ ~plan.prompt_run
    /\ Len(plan.scheduled_seq_groups) >= 2
    /\ plan.scheduled_seq_groups[1] \notin plan.retrieval_blocks_to_swap_in
    /\ Last(plan.scheduled_seq_groups) \in plan.retrieval_blocks_to_swap_in
    /\ plan.num_batched_tokens > Len(plan.scheduled_seq_groups)

\* C20 Fatal swap-out failure.  (a) _preempt called on a multi-sequence group of
\* running for which can_swap_out is false raises RuntimeError and leaves swapped,
\* every status, every block table and both swap-out maps as they were.  (b) For
\* every pattern of failing appends and every answer of can_swap_out, the reserve
\* phase raises RuntimeError exactly when the next victim in turn is a
\* multi-sequence group for which can_swap_out is false, and ends without error only
\* if every multi-sequence group it preempted had can_swap_out true.  (c) A tick that
\* raises RuntimeError returns no plan, and a multi-sequence group that was running is
\* afterwards not in swapped, with statuses and block tables unchanged.
C20_FatalSwapOut ==
    /\ [](/\ \A g \in MultiSeqGroups(running), bm \in BlockManagerAnswers :
                LET p == preempt([TickStart EXCEPT !.running = Remove(running, g)], g, {}, bm)
                IN  /\ p.error = "RuntimeError"
                    /\ p.swapped = swapped
                    /\ p.status = seq_status /\ p.table = block_table
                    /\ p.r_out = {} /\ p.s_out = {}
          /\ \A append_fails \in AppendAnswers :
                \A can_swap_out \in SwapOutAnswers(append_fails) :
                   LET r == ReservePhase(TickStart, append_fails, can_swap_out,
                                         [streaming |-> TRUE, cow |-> FALSE])
                       sorted == sort_by_priority(running)
                       next == Len(sorted) - Len(r.preempted)
                   IN  /\ r.error = "RuntimeError" =>
                             /\ next >= 1
                             /\ sorted[next] \in MultiSeqGroups(running) \ can_swap_out
                             /\ sorted[next] \notin SeqSet(r.swapped)
                             /\ r.status[sorted[next]] = seq_status[sorted[next]]
                             /\ sorted[next] \notin r.r_out \cup r.s_out
                       /\ r.error = "none" =>
                             SeqSet(r.preempted) \cap MultiSeqGroups(running) \subseteq can_swap_out)
    /\ [][(error = "none" /\ error' = "RuntimeError") =>
             /\ ~plan_returned' /\ plan' = NoPlan
             /\ \E v \in MultiSeqGroups(running) :
                   /\ v \notin SeqSet(swapped') \cup SeqSet(running') \cup SeqSet(waiting')
                   /\ seq_status'[v] = seq_status[v]
                   /\ block_table'[v] = block_table[v]
             /\ \A g \in SeqSet(swapped') \ SeqSet(swapped) :
                   get_seqs(seq_status', g, "RUNNING") = {}]_vars

\* A tick has raised RuntimeError: the victim, with two RUNNING sequences, is in no
\* queue, while a group swapped out before it is in swapped.
C20_Witness ==
    /\ error = "RuntimeError"
    /\ ~plan_returned
    /\ swapped # <<>>
    /\ \E v \in Groups \ Queued :
          /\ PreemptionMode(v) = "SWAP"
          /\ Cardinality(get_seqs(seq_status, v, "RUNNING")) = 2
          /\ \A s \in Slots : block_table[v][s] = "gpu"

\* The queue q holds its groups in arrival order.
SortedByArrival(q) == \A i, j \in 1..Len(q) : i < j => q[i] < q[j]

\* C21 as stated: waiting is sorted by arrival and every group in running or swapped
\* arrived before every group in waiting.
C21_Original_ArrivalOrder ==
    /\ SortedByArrival(waiting)
    /\ \A g \in SeqSet(running) \cup SeqSet(swapped) : \A w \in SeqSet(waiting) : g < w

\* C21 Arrival order survives preemption, amended.  In every reachable state waiting
\* is sorted by arrival and every group in running that is preempted by RECOMPUTE
\* (get_max_num_running_seqs() = 1) arrived before every group in waiting; and for
\* every pattern of failing appends and every answer of can_swap_out, the groups the
\* reserve loop preempts by RECOMPUTE end up at the front of waiting, ahead of all
\* groups that were waiting, in arrival order among themselves, also when the loop
\* ends in an exception.
C21_ArrivalOrder ==
    /\ SortedByArrival(waiting)
    /\ \A g \in SeqSet(running) :
          PreemptionMode(g) = "RECOMPUTE" => \A w \in SeqSet(waiting) : g < w
    /\ \A append_fails \in AppendAnswers :
          \A can_swap_out \in SwapOutAnswers(append_fails) :
             LET r == ReservePhase(TickStart, append_fails, can_swap_out,
                                   [streaming |-> TRUE, cow |-> FALSE])
                 recomputed == {g \in SeqSet(r.preempted) : PreemptionMode(g) = "RECOMPUTE"}
             IN  /\ r.waiting = InArrivalOrder(recomputed) \o waiting
                 /\ SortedByArrival(r.waiting)

\* A decode tick has left nothing running: two groups preempted by RECOMPUTE stand at
\* the front of waiting in arrival order, ahead of a later group, while no group is
\* swapped out.
C21_Witness ==
    /\ plan_returned /\ ~plan.prompt_run
    /\ plan.scheduled_seq_groups = <<>>
    /\ preempted_ever
    /\ swapped = <<>>
    /\ Len(waiting) = 3
    /\ \A i \in 1..3 : PreemptionMode(waiting[i]) = "RECOMPUTE"

QueuesHolding(g, w, r, s) ==
    Cardinality({i \in 1..Len(w) : w[i] = g}) + Cardinality({i \in 1..Len(r) : r[i] = g})
        + Cardinality({i \in 1..Len(s) : s[i] = g})

\* C24 as stated: after a tick that returns or ends with the fatal swap-out error,
\* every group that was queued and is not listed as ignored is in exactly one queue.
C24_Original_NoGroupLost ==
    [][(plan_returned' \/ (error = "none" /\ error' = "RuntimeError")) =>
          \A g \in Queued \ SeqSet(plan'.ignored_seq_groups) :
             QueuesHolding(g, waiting', running', swapped') = 1]_vars

\* C24 No group is lost, amended.  After every tick that returns a plan, every group
\* that was queued before the tick and is not listed as ignored is in exactly one
\* queue, an ignored group is in none, and no other group is queued.  A tick that
\* raises drops at least one group from all queues; the groups it drops were all
\* running, every group that was waiting or swapped is kept, and every group it
\* keeps is in exactly one queue.
C24_NoGroupLost ==
    [][/\ plan_returned' =>
            /\ \A g \in Queued \ SeqSet(plan'.ignored_seq_groups) :
                  QueuesHolding(g, waiting', running', swapped') = 1
            /\ \A g \in Groups \ (Queued \ SeqSet(plan'.ignored_seq_groups)) :
                  QueuesHolding(g, waiting', running', swapped') = 0
       /\ (error = "none" /\ error' # "none") =>
            LET dropped == {g \in Queued : QueuesHolding(g, waiting', running', swapped') = 0}
            IN  /\ dropped # {}
                /\ dropped \subseteq SeqSet(running)
                /\ \A g \in Groups \ dropped :
                      QueuesHolding(g, waiting', running', swapped')
                         = IF g \in Queued THEN 1 ELSE 0]_vars

\* A tick has raised the fatal swap-out error: two groups that were running (the
\* victim and a group served before it) are in no queue, their sequences RUNNING and
\* their blocks on the GPU, while a group that was waiting is still waiting.
C24_Witness ==
    /\ error = "RuntimeError"
    /\ Len(waiting) = 1
    /\ Cardinality({g \in Groups \ Queued :
                       /\ get_seqs(seq_status, g, "RUNNING") # {}
                       /\ \A s \in get_seqs(seq_status, g, "RUNNING") :
                             block_table[g][s] = "gpu"}) = 2

\* The call just made was a tick whose prompt plan lists g as scheduled or as ignored.
ListedByPromptPlan(g) ==
    /\ plan_returned /\ plan.prompt_run
    /\ g \in SeqSet(plan.scheduled_seq_groups) \cup SeqSet(plan.ignored_seq_groups)

\* C23 Admission progress, as stated, for the engine loop and a block manager with
\* room for any one group: every group added is eventually listed by a prompt plan,
\* as scheduled or as ignored, unless it is aborted or a tick raises.
C23_AdmissionProgress ==
    \A g \in Groups :
        <>(num_added >= g) =>
            <>(\/ ListedByPromptPlan(g)
               \/ get_seqs(seq_status, g, "FINISHED_ABORTED") # {}
               \/ error # "none")

====
